---- MODULE Spec2Model ----
(***************************************************************************)
(* LS-8 emulator (ls8/cpu.py): the CPU object, its thirteen instruction     *)
(* handlers and the fetch-decode-execute loop of CPU.run, as a state        *)
(* machine.  One step of the model is one iteration of the loop.  A Python  *)
(* exception raised inside an iteration ends the run with the mutations     *)
(* made before the raise kept.                                              *)
(***************************************************************************)
EXTENDS Integers, Sequences, FiniteSets, TLC

\* ------------------------------------------------------------------------
\* Opcodes and layout constants (cpu.py:6-20, 27-32)
HLT == 1
LDI == 130
PRN == 71
MUL == 162
POP == 70
PUSH == 69
RET == 17
CALL == 80
ADD == 160
CMP == 167
JEQ == 85
JNE == 86
JMP == 84

SP == 7
MemSize == 256
NumRegs == 8
StackInit == 244

\* ------------------------------------------------------------------------
\* Bounds of the model
MaxInstr == 2       \* instructions in a program of the general family
MaxDepth == 2       \* PUSH^n POP^n programs have n <= MaxDepth
MaxSteps == 6       \* loop iterations explored per run
MaxVal == 65535     \* largest register magnitude explored (Python ints are unbounded)

\* ------------------------------------------------------------------------
\* Python list indexing: index i of a list of length n is valid for
\* -n <= i < n, negative indices counting from the end.
ValidIdx(i, n) == i >= -n /\ i < n
Norm(i, n) == IF i < 0 THEN i + n ELSE i

Abs(x) == IF x < 0 THEN -x ELSE x

\* str(int) as print() writes it: the decimal digits, "-" first when negative.
DigitChar == <<"0", "1", "2", "3", "4", "5", "6", "7", "8", "9">>

RECURSIVE Digits(_)
Digits(n) == IF n < 10 THEN <<DigitChar[n + 1]>>
             ELSE Append(Digits(n \div 10), DigitChar[(n % 10) + 1])

str(v) == IF v < 0 THEN <<"-">> \o Digits(-v) ELSE Digits(v)

\* ------------------------------------------------------------------------
\* State: the fields of the CPU object, the standard output stream, the
\* state of the process, and the record of the loop iterations made.
VARIABLES ram, reg, pc, fl, running, stdout, status, hist

vars == <<ram, reg, pc, fl, running, stdout, status, hist>>

\* The CPU object together with stdout, as the handlers see it.  exc is the
\* exception pending in the current iteration ("none" when there is none).
Self == [ram |-> ram, reg |-> reg, pc |-> pc, fl |-> fl, running |-> running,
         stdout |-> stdout, exc |-> "none"]

Raise(s, e) == [s EXCEPT !.exc = e]

\* Mutation of print: the new line goes in front of the lines written before.
print_prepend(s, line) == [s EXCEPT !.stdout = <<line>> \o @]

print(s, line) == [s EXCEPT !.stdout = Append(@, line)]

branchtable == {HLT, LDI, PRN, MUL, PUSH, POP, RET, CALL, ADD, CMP, JEQ, JNE, JMP}

\* CPU.__init__
Init ==
    /\ ram = [i \in 0..(MemSize - 1) |-> 0]
    /\ pc = 0
    /\ fl = 0
    /\ running = TRUE
    /\ reg = [i \in 0..(NumRegs - 1) |-> IF i = SP THEN StackInit ELSE 0]
    /\ stdout = <<>>
    /\ status = "constructed"
    /\ hist = <<>>

\* ------------------------------------------------------------------------
\* Handlers.  Each maps the CPU record before the call to the record after
\* it; a raise keeps what was assigned before it.

handle_jmp(s, a) ==
    IF ~ValidIdx(a, NumRegs) THEN Raise(s, "IndexError")
    ELSE [s EXCEPT !.pc = s.reg[Norm(a, NumRegs)]]

\* Mutation of JneTaken: the jump is taken only while FL is still zero.
JneTaken_zero(f) == f = 0

JneTaken(f) == (f % 2) = 0

handle_jne(s, a) ==
    IF JneTaken(s.fl)
    THEN IF ~ValidIdx(a, NumRegs) THEN Raise(s, "IndexError")
         ELSE [s EXCEPT !.pc = s.reg[Norm(a, NumRegs)]]
    ELSE [s EXCEPT !.pc = @ + 2]

\* Mutation of JeqTaken: the test reads the greater-than bit.
JeqTaken_wrongbit(f) == f = 2

JeqTaken(f) == f = 1

handle_jeq(s, a) ==
    IF JeqTaken(s.fl)
    THEN IF ~ValidIdx(a, NumRegs) THEN Raise(s, "IndexError")
         ELSE [s EXCEPT !.pc = s.reg[Norm(a, NumRegs)]]
    ELSE [s EXCEPT !.pc = @ + 2]

\* Mutation of CmpFlag: the second comparison is >=, so equal values set
\* the greater-than bit.
CmpFlag_ge(val_a, val_b) ==
    IF val_a < val_b THEN 4
    ELSE IF val_a >= val_b THEN 2
    ELSE 1

CmpFlag(val_a, val_b) ==
    IF val_a < val_b THEN 4
    ELSE IF val_a > val_b THEN 2
    ELSE 1

\* Mutation of handle_cmp: the compare is a subtraction that keeps its result.
handle_cmp_sub(s, a, b) ==
    IF ~ValidIdx(a, NumRegs) \/ ~ValidIdx(b, NumRegs) THEN Raise(s, "IndexError")
    ELSE [s EXCEPT !.fl = CmpFlag(s.reg[Norm(a, NumRegs)], s.reg[Norm(b, NumRegs)]),
                   !.reg[Norm(a, NumRegs)] = @ - s.reg[Norm(b, NumRegs)]]

handle_cmp(s, a, b) ==
    IF ~ValidIdx(a, NumRegs) \/ ~ValidIdx(b, NumRegs) THEN Raise(s, "IndexError")
    ELSE [s EXCEPT !.fl = CmpFlag(s.reg[Norm(a, NumRegs)], s.reg[Norm(b, NumRegs)])]

\* Mutation of handle_call: the return address is PC + 1.
handle_call_short(s, a) ==
    LET return_addr == s.pc + 1
        s1 == [s EXCEPT !.reg[SP] = @ - 1]
    IN  IF ~ValidIdx(s1.reg[SP], MemSize) THEN Raise(s1, "IndexError")
        ELSE LET s2 == [s1 EXCEPT !.ram[Norm(s1.reg[SP], MemSize)] = return_addr]
             IN  IF ~ValidIdx(a, NumRegs) THEN Raise(s2, "IndexError")
                 ELSE [s2 EXCEPT !.pc = s2.reg[Norm(a, NumRegs)]]

handle_call(s, a) ==
    LET return_addr == s.pc + 2
        s1 == [s EXCEPT !.reg[SP] = @ - 1]
    IN  IF ~ValidIdx(s1.reg[SP], MemSize) THEN Raise(s1, "IndexError")
        ELSE LET s2 == [s1 EXCEPT !.ram[Norm(s1.reg[SP], MemSize)] = return_addr]
             IN  IF ~ValidIdx(a, NumRegs) THEN Raise(s2, "IndexError")
                 ELSE [s2 EXCEPT !.pc = s2.reg[Norm(a, NumRegs)]]

handle_ret(s) ==
    IF ~ValidIdx(s.reg[SP], MemSize) THEN Raise(s, "IndexError")
    ELSE [s EXCEPT !.pc = s.ram[Norm(s.reg[SP], MemSize)],
                   !.reg[SP] = @ + 1]

\* Mutation of handle_hlt: the running indicator is left set.
handle_hlt_noop(s) == s

handle_hlt(s) == [s EXCEPT !.running = FALSE]

handle_ldi(s, a, b) ==
    IF ~ValidIdx(a, NumRegs) THEN Raise(s, "IndexError")
    ELSE [s EXCEPT !.reg[Norm(a, NumRegs)] = b]

\* Mutation of handle_prn: the operand itself is printed, not the register.
handle_prn_operand(s, a) ==
    IF ~ValidIdx(a, NumRegs) THEN Raise(s, "IndexError")
    ELSE print(s, str(a))

\* Mutation of handle_prn: the handler's own "self.pc += 2" is live again.
handle_prn_advances(s, a) ==
    IF ~ValidIdx(a, NumRegs) THEN Raise(s, "IndexError")
    ELSE [print(s, str(s.reg[Norm(a, NumRegs)])) EXCEPT !.pc = @ + 2]

handle_prn(s, a) ==
    IF ~ValidIdx(a, NumRegs) THEN Raise(s, "IndexError")
    ELSE print(s, str(s.reg[Norm(a, NumRegs)]))

handle_mul(s, a, b) ==
    IF ~ValidIdx(a, NumRegs) \/ ~ValidIdx(b, NumRegs) THEN Raise(s, "IndexError")
    ELSE [s EXCEPT !.reg[Norm(a, NumRegs)] = @ * s.reg[Norm(b, NumRegs)]]

handle_add(s, a, b) ==
    IF ~ValidIdx(a, NumRegs) \/ ~ValidIdx(b, NumRegs) THEN Raise(s, "IndexError")
    ELSE [s EXCEPT !.reg[Norm(a, NumRegs)] = @ + s.reg[Norm(b, NumRegs)]]

\* Mutation of handle_push: the value is stored before SP is decremented.
handle_push_postdec(s, a) ==
    IF ~ValidIdx(a, NumRegs) THEN Raise(s, "IndexError")
    ELSE IF ~ValidIdx(s.reg[SP], MemSize) THEN Raise(s, "IndexError")
    ELSE LET s1 == [s EXCEPT !.ram[Norm(s.reg[SP], MemSize)] = s.reg[Norm(a, NumRegs)]]
         IN  [s1 EXCEPT !.reg[SP] = @ - 1]

handle_push(s, a) ==
    LET s1 == [s EXCEPT !.reg[SP] = @ - 1]
    IN  IF ~ValidIdx(a, NumRegs) THEN Raise(s1, "IndexError")
        ELSE IF ~ValidIdx(s1.reg[SP], MemSize) THEN Raise(s1, "IndexError")
        ELSE [s1 EXCEPT !.ram[Norm(s1.reg[SP], MemSize)] = s1.reg[Norm(a, NumRegs)]]

\* Mutation of handle_pop: SP is incremented before the load.
handle_pop_preinc(s, a) ==
    LET s1 == [s EXCEPT !.reg[SP] = @ + 1]
    IN  IF ~ValidIdx(s1.reg[SP], MemSize) THEN Raise(s1, "IndexError")
        ELSE IF ~ValidIdx(a, NumRegs) THEN Raise(s1, "IndexError")
        ELSE [s1 EXCEPT !.reg[Norm(a, NumRegs)] = s1.ram[Norm(s1.reg[SP], MemSize)]]

handle_pop(s, a) ==
    IF ~ValidIdx(s.reg[SP], MemSize) THEN Raise(s, "IndexError")
    ELSE IF ~ValidIdx(a, NumRegs) THEN Raise(s, "IndexError")
    ELSE LET s1 == [s EXCEPT !.reg[Norm(a, NumRegs)] = s.ram[Norm(s.reg[SP], MemSize)]]
         IN  [s1 EXCEPT !.reg[SP] = @ + 1]

ram_read(s, mar) == s.ram[Norm(mar, MemSize)]


\* ------------------------------------------------------------------------
\* Decoding of the opcode byte AABCDDDD (cpu.py:192-195).  >> and & on
\* Python ints are floor division and remainder.
num_operands(ir) == ir \div 64
sets_pc(ir) == (ir \div 16) % 2
uses_alu(ir) == ((ir \div 32) % 2) * 2

\* branchtable[ir]() / (operand_a) / (operand_a, operand_b): a call whose
\* argument count the bound method does not accept raises TypeError.
call0(s, ir) ==
    CASE ir = HLT -> handle_hlt(s)
      [] ir = RET -> handle_ret(s)
      [] OTHER -> Raise(s, "TypeError")

call1(s, ir, a) ==
    CASE ir = PRN -> handle_prn(s, a)
      [] ir = PUSH -> handle_push(s, a)
      [] ir = POP -> handle_pop(s, a)
      [] ir = CALL -> handle_call(s, a)
      [] ir = JEQ -> handle_jeq(s, a)
      [] ir = JNE -> handle_jne(s, a)
      [] ir = JMP -> handle_jmp(s, a)
      [] OTHER -> Raise(s, "TypeError")

call2(s, ir, a, b) ==
    CASE ir = LDI -> handle_ldi(s, a, b)
      [] ir = MUL -> handle_mul(s, a, b)
      [] ir = ADD -> handle_add(s, a, b)
      [] ir = CMP -> handle_cmp(s, a, b)
      [] OTHER -> Raise(s, "TypeError")

\* The if/elif chain of cpu.py:199-206.  uses_alu is 0 or 2, so the first
\* branch (self.ALU, an attribute the class does not have) is never taken.
dispatch(s, ir, operand_a, operand_b) ==
    IF uses_alu(ir) = 1 THEN Raise(s, "AttributeError")
    ELSE IF num_operands(ir) = 0 THEN call0(s, ir)
    ELSE IF num_operands(ir) = 1 THEN call1(s, ir, operand_a)
    ELSE IF num_operands(ir) = 2 THEN call2(s, ir, operand_a, operand_b)
    ELSE s

\* Mutation of advance: the sets-PC bit is ignored.
advance_always(s, ir) == [s EXCEPT !.pc = @ + 1 + num_operands(ir)]

\* The standard advance of cpu.py:207-208.
advance(s, ir) ==
    IF sets_pc(ir) # 1 THEN [s EXCEPT !.pc = @ + 1 + num_operands(ir)] ELSE s

\* cpu.py:209-212: report a non-zero byte, then sys.exit(1).
\* Mutation of unknown: the loop is stopped through the running indicator
\* instead of sys.exit(1).
unknown_halts(s, ir) ==
    [(IF ir # 0 THEN print(s, <<"Unknown instruction ">> \o str(ir)) ELSE s)
        EXCEPT !.running = FALSE]

unknown(s, ir) ==
    Raise(IF ir # 0 THEN print(s, <<"Unknown instruction ">> \o str(ir)) ELSE s,
          "SystemExit")

\* The three fetches of cpu.py:191-197 all succeed.
FetchOk(s) ==
    /\ ValidIdx(s.pc, MemSize)
    /\ ValidIdx(s.pc + 1, MemSize)
    /\ ValidIdx(s.pc + 2, MemSize)

\* One iteration of the while loop of CPU.run.
run(s) ==
    IF ~FetchOk(s) THEN Raise(s, "IndexError")
    ELSE LET ir == ram_read(s, s.pc)
             operand_a == ram_read(s, s.pc + 1)
             operand_b == ram_read(s, s.pc + 2)
         IN  IF ir \in branchtable
             THEN LET h == dispatch(s, ir, operand_a, operand_b)
                  IN  IF h.exc # "none" THEN h ELSE advance(h, ir)
             ELSE unknown(s, ir)


\* ------------------------------------------------------------------------
\* Program images handed to load: byte sequences placed from address 0.
RegOps == {0, 7}                 \* register operands of the general family
ImmVals == {0, 2, 254, 255}      \* immediates of LDI
BadOps == {0, 255}               \* bytes that are no key of branchtable
StackRegs == {0, 1, 7}
StackVals == {2, 255}
CallTargets == {5, 6}
BadReg == NumRegs                \* an operand that is no register index

Instrs ==
    {<<HLT>>, <<RET>>}
    \cup {<<op, a>> : op \in {PRN, PUSH, POP, CALL, JEQ, JNE, JMP}, a \in RegOps}
    \cup {<<LDI, a, v>> : a \in RegOps, v \in ImmVals}
    \cup {<<op, a, b>> : op \in {MUL, ADD, CMP}, a \in RegOps, b \in RegOps}
    \cup {<<u>> : u \in BadOps}

RECURSIVE Flatten(_)
Flatten(ss) == IF ss = <<>> THEN <<>> ELSE Head(ss) \o Flatten(Tail(ss))

\* Every program of at most MaxInstr instructions.
GeneralProgs ==
    UNION {{Flatten(f) : f \in [1..n -> Instrs]} : n \in 1..MaxInstr}

\* LDI R0,v; LDI R1,w; n PUSHes; n POPs.
StackProgs ==
    UNION {{<<LDI, 0, v, LDI, 1, w>>
              \o Flatten([i \in 1..n |-> <<PUSH, ps[i]>>])
              \o Flatten([i \in 1..n |-> <<POP, qs[i]>>]) :
                v \in StackVals, w \in StackVals,
                ps \in [1..n -> StackRegs], qs \in [1..n -> StackRegs]} :
           n \in 1..MaxDepth}

\* LDI r,t; CALL r; two one-byte instructions at addresses 5 and 6.
CallProgs ==
    {<<LDI, r, t, CALL, r, i1, i2>> :
        r \in StackRegs, t \in CallTargets,
        i1 \in {HLT, RET, 0}, i2 \in {HLT, RET}}

\* A compare on loaded values followed by a conditional jump and its target.
BranchProgs ==
    {<<LDI, 0, v, LDI, 1, w, CMP, 0, 1, j, t, HLT>> :
        v \in StackVals, w \in StackVals, j \in {JEQ, JNE}, t \in StackRegs}

\* An instruction naming register BadReg, alone or after a CMP.
FaultProgs ==
    LET bad == {<<op, BadReg>> : op \in {PRN, PUSH, POP, CALL, JEQ, JNE, JMP}}
                 \cup {<<op, BadReg, 0>> : op \in {LDI, MUL, ADD, CMP}}
                 \cup {<<op, 0, BadReg>> : op \in {MUL, ADD, CMP}}
    IN  bad \cup {<<CMP, 0, 0>> \o i : i \in bad}

\* A HLT stored by PUSH into one of the last three cells of memory (SP = 0
\* pushes into cell 255), and a jump to it.
EdgeAddrs == {MemSize - 3, MemSize - 2, MemSize - 1}

EdgeProgs ==
    {<<LDI, 0, HLT, LDI, 7, (p + 1) % MemSize, PUSH, 0, LDI, 1, p, JMP, 1>> :
        p \in EdgeAddrs}

Programs ==
    GeneralProgs \cup StackProgs \cup CallProgs \cup BranchProgs \cup FaultProgs
        \cup EdgeProgs

\* CPU.load, after the file is read and parsed: the loop of cpu.py:145-147.
load ==
    /\ status = "constructed"
    /\ \E program \in Programs :
          ram' = [i \in 0..(MemSize - 1) |->
                    IF i < Len(program) THEN program[i + 1] ELSE ram[i]]
    /\ status' = "running"
    /\ UNCHANGED <<reg, pc, fl, running, stdout, hist>>

\* ------------------------------------------------------------------------
\* The record of one loop iteration: what was fetched, the registers and
\* flags before, and what the iteration left behind.
RegOr0(s, a) == IF ValidIdx(a, NumRegs) THEN s.reg[Norm(a, NumRegs)] ELSE 0
RamOr0(s, i) == IF ValidIdx(i, MemSize) THEN s.ram[Norm(i, MemSize)] ELSE 0

Entry(s, r) ==
    LET ok == FetchOk(s)
        ir == RamOr0(s, s.pc)
        a == IF ok THEN ram_read(s, s.pc + 1) ELSE 0
        b == IF ok THEN ram_read(s, s.pc + 2) ELSE 0
    IN  [pcok |-> ValidIdx(s.pc, MemSize), fetched |-> ok,
         ir |-> ir, a |-> a, b |-> b, exc |-> r.exc,
         pc |-> s.pc, reg |-> s.reg, fl |-> s.fl, nout |-> Len(s.stdout),
         top |-> RamOr0(s, s.reg[SP]),
         npc |-> r.pc, nreg |-> r.reg, nfl |-> r.fl, ntop |-> RamOr0(r, r.reg[SP])]

\* The exploration stops where a product or sum would leave -MaxVal..MaxVal.
Fits(s) ==
    LET ir == ram_read(s, s.pc)
        x == RegOr0(s, ram_read(s, s.pc + 1))
        y == RegOr0(s, ram_read(s, s.pc + 2))
    IN  IF ~FetchOk(s) THEN TRUE
        ELSE IF ir = ADD THEN Abs(x + y) <= MaxVal
        ELSE IF ir = MUL
             THEN IF x = 0 \/ y = 0 THEN TRUE ELSE Abs(x) <= MaxVal \div Abs(y)
        ELSE TRUE

\* The process state the iteration ends in: the loop condition is read
\* right after the iteration (cpu.py:189).
StatusAfter(r) ==
    IF r.exc = "SystemExit" THEN "exit1"
    ELSE IF r.exc # "none" THEN "raised"
    ELSE IF r.running THEN "running"
    ELSE "halted"

Commit(r) ==
    /\ ram' = r.ram
    /\ reg' = r.reg
    /\ pc' = r.pc
    /\ fl' = r.fl
    /\ running' = r.running
    /\ stdout' = r.stdout
    /\ status' = StatusAfter(r)
    /\ hist' = Append(hist, Entry(Self, r))

InLoop ==
    /\ status = "running"
    /\ running
    /\ Len(hist) < MaxSteps
    /\ Fits(Self)

\* The fetch succeeds and the opcode byte is op.
Fetches(op) == FetchOk(Self) /\ ram_read(Self, pc) = op

\* One action per key of branchtable: an iteration that fetches that opcode
\* and dispatches it.

step_hlt == InLoop /\ Fetches(HLT) /\ Commit(run(Self))
step_ldi == InLoop /\ Fetches(LDI) /\ Commit(run(Self))
step_prn == InLoop /\ Fetches(PRN) /\ Commit(run(Self))
step_mul == InLoop /\ Fetches(MUL) /\ Commit(run(Self))
step_add == InLoop /\ Fetches(ADD) /\ Commit(run(Self))
step_push == InLoop /\ Fetches(PUSH) /\ Commit(run(Self))
step_pop == InLoop /\ Fetches(POP) /\ Commit(run(Self))
step_call == InLoop /\ Fetches(CALL) /\ Commit(run(Self))
step_ret == InLoop /\ Fetches(RET) /\ Commit(run(Self))
step_cmp == InLoop /\ Fetches(CMP) /\ Commit(run(Self))
step_jeq == InLoop /\ Fetches(JEQ) /\ Commit(run(Self))
step_jne == InLoop /\ Fetches(JNE) /\ Commit(run(Self))
step_jmp == InLoop /\ Fetches(JMP) /\ Commit(run(Self))

\* An iteration whose opcode byte is no key of branchtable.
step_unknown ==
    /\ InLoop
    /\ FetchOk(Self)
    /\ ram_read(Self, pc) \notin branchtable
    /\ Commit(run(Self))

\* An iteration in which one of the three fetches raises IndexError.
step_fetch_error ==
    /\ InLoop
    /\ ~FetchOk(Self)
    /\ Commit(run(Self))

Next ==
    \/ load
    \/ step_hlt
    \/ step_ldi
    \/ step_prn
    \/ step_mul
    \/ step_add
    \/ step_push
    \/ step_pop
    \/ step_call
    \/ step_ret
    \/ step_cmp
    \/ step_jeq
    \/ step_jne
    \/ step_jmp
    \/ step_unknown
    \/ step_fetch_error

Spec == Init /\ [][Next]_vars


\* ------------------------------------------------------------------------
\* The generic ALU entry point, called directly on a constructed CPU
\* (CPU.run never calls it: its self.ALU branch is dead).

\* The text of the exception of cpu.py:155.
alu_message == <<"Unsupported ALU operation">>

\* CPU.alu: a handler found in branchtable is called with two arguments,
\* whatever its opcode.
alu(s, op, reg_a, reg_b) ==
    IF op \in branchtable THEN call2(s, op, reg_a, reg_b)
    ELSE Raise(s, "Exception")

MaxCalls == 2                    \* calls of alu explored
AluOps == {ADD, MUL, CMP, LDI, PRN, HLT, 0, 255}
AluArgs == {0, 7}

\* The record of one call: its arguments, the CPU before and after, the
\* number of arguments the handler was called with (0 when none was
\* called) and the text of an exception raised by alu itself.
AluEntry(op, reg_a, reg_b, s, r) ==
    [op |-> op, a |-> reg_a, b |-> reg_b, before |-> s, after |-> r,
     nargs |-> IF op \in branchtable THEN 2 ELSE 0,
     msg |-> IF r.exc = "Exception" THEN alu_message ELSE <<>>]

AluFits(s, op, reg_a, reg_b) ==
    LET x == RegOr0(s, reg_a)
        y == RegOr0(s, reg_b)
    IN  IF op = ADD THEN Abs(x + y) <= MaxVal
        ELSE IF op = MUL
             THEN IF x = 0 \/ y = 0 THEN TRUE ELSE Abs(x) <= MaxVal \div Abs(y)
        ELSE TRUE

alu_call ==
    /\ status = "constructed"
    /\ Len(hist) < MaxCalls
    /\ \E op \in AluOps, reg_a \in AluArgs, reg_b \in AluArgs :
          /\ AluFits(Self, op, reg_a, reg_b)
          /\ LET r == alu(Self, op, reg_a, reg_b) IN
             /\ ram' = r.ram
             /\ reg' = r.reg
             /\ pc' = r.pc
             /\ fl' = r.fl
             /\ running' = r.running
             /\ stdout' = r.stdout
             /\ status' = IF r.exc = "none" THEN "constructed" ELSE "raised"
             /\ hist' = Append(hist, AluEntry(op, reg_a, reg_b, Self, r))

NextAlu == alu_call

SpecAlu == Init /\ [][NextAlu]_vars

\* ------------------------------------------------------------------------
\* Vocabulary of the properties
Steps == 1..Len(hist)

\* The iteration fetched opcode op and its handler returned normally.
Done(e, op) == e.fetched /\ e.ir = op /\ e.exc = "none"

IsReg(a) == a \in 0..(NumRegs - 1)
IsByte(v) == v \in 0..255

\* C1: ADD a,b leaves reg[a] = (x + y) mod 256 and MUL a,b leaves
\* reg[a] = (x * y) mod 256 for register operands a, b and byte values
\* x = reg[a], y = reg[b]; the result is a byte.
C1_ArithWraps ==
    \A k \in Steps :
        LET e == hist[k] IN
        (e.ir \in {ADD, MUL} /\ Done(e, e.ir) /\ IsReg(e.a) /\ IsReg(e.b)
           /\ IsByte(e.reg[e.a]) /\ IsByte(e.reg[e.b]))
        => /\ IsByte(e.nreg[e.a])
           /\ e.ir = ADD => e.nreg[e.a] = (e.reg[e.a] + e.reg[e.b]) % 256
           /\ e.ir = MUL => e.nreg[e.a] = (e.reg[e.a] * e.reg[e.b]) % 256


\* hist[i..i+2n-1] is n completed PUSHes followed by n completed POPs, all
\* on register operands, begun with the n stack cells inside memory.
PushPop(i, n) ==
    /\ i + 2 * n - 1 <= Len(hist)
    /\ \A k \in 0..(n - 1) : Done(hist[i + k], PUSH) /\ IsReg(hist[i + k].a)
    /\ \A k \in n..(2 * n - 1) : Done(hist[i + k], POP) /\ IsReg(hist[i + k].a)
    /\ hist[i].reg[SP] - n >= 0
    /\ hist[i].reg[SP] <= MemSize

\* The value a PUSH was given and the value a POP delivered: the content of
\* the operand register when the handler returns.
Pushed(e) == e.nreg[e.a]
Popped(e) == e.nreg[e.a]

LIFO(i, n) ==
    /\ \A k \in 1..n : Popped(hist[i + n + k - 1]) = Pushed(hist[i + n - k])
    /\ hist[i + 2 * n - 1].nreg[SP] = hist[i].reg[SP]

NoPopIntoSP(i, n) == \A k \in n..(2 * n - 1) : hist[i + k].a # SP

\* C2 as claimed: n PUSHes followed by n POPs return the pushed values in
\* reverse order and restore the stack pointer, whatever the operands.
C2_StackLIFO ==
    \A i \in Steps : \A n \in 1..MaxSteps : PushPop(i, n) => LIFO(i, n)

\* C2 as amended: the law holds when no POP of the sequence names register 7
\* (the stack pointer) as its destination.
C2_StackLIFO_NoSP ==
    \A i \in Steps : \A n \in 1..MaxSteps :
        (PushPop(i, n) /\ NoPopIntoSP(i, n)) => LIFO(i, n)

C2_Witness ==
    \E i \in Steps :
        /\ PushPop(i, 2)
        /\ NoPopIntoSP(i, 2)
        /\ Pushed(hist[i]) # Pushed(hist[i + 1])
        /\ Popped(hist[i + 2]) = Pushed(hist[i + 1])

\* C3: after CMP a,b on x = reg[a], y = reg[b], the next JEQ jumps to
\* reg[target] when x = y and falls through to PC + 2 otherwise, and the
\* next JNE jumps when x # y and falls through otherwise.
LastCmp(k) ==
    IF \E j \in 1..(k - 1) : Done(hist[j], CMP)
    THEN CHOOSE j \in 1..(k - 1) :
            /\ Done(hist[j], CMP)
            /\ \A m \in (j + 1)..(k - 1) : ~Done(hist[m], CMP)
    ELSE 0

CmpX(j) == hist[j].reg[Norm(hist[j].a, NumRegs)]
CmpY(j) == hist[j].reg[Norm(hist[j].b, NumRegs)]

C3_CompareBranch ==
    \A k \in Steps :
        LET e == hist[k]
            j == LastCmp(k)
        IN  (j # 0 /\ e.ir \in {JEQ, JNE} /\ Done(e, e.ir) /\ IsReg(e.a))
            => LET jumps == IF e.ir = JEQ THEN CmpX(j) = CmpY(j)
                            ELSE CmpX(j) # CmpY(j)
               IN  e.npc = IF jumps THEN e.reg[e.a] ELSE e.pc + 2

C3_Witness ==
    \E k \in Steps :
        /\ LastCmp(k) # 0
        /\ CmpX(LastCmp(k)) = CmpY(LastCmp(k))
        /\ Done(hist[k], JEQ)
        /\ IsReg(hist[k].a)
        /\ hist[k].npc = hist[k].reg[hist[k].a]
        /\ hist[k].npc # hist[k].pc + 2

DigitOf(c) == CHOOSE d \in 0..9 : DigitChar[d + 1] = c

RECURSIVE DecValue(_)
DecValue(line) ==
    IF line = <<>> THEN 0
    ELSE 10 * DecValue(SubSeq(line, 1, Len(line) - 1)) + DigitOf(line[Len(line)])

\* C5: LDI r,v followed at once by PRN r, for a register r and a byte v,
\* leaves reg[r] = v in between and appends exactly one line, the decimal
\* form of v, to the output.
C5_LdiPrn ==
    \A k \in Steps :
        (k = Len(hist) /\ k >= 2 /\ Done(hist[k - 1], LDI) /\ IsReg(hist[k - 1].a)
           /\ IsByte(hist[k - 1].b) /\ Done(hist[k], PRN)
           /\ hist[k].a = hist[k - 1].a)
        => /\ hist[k].reg[hist[k].a] = hist[k - 1].b
           /\ Len(stdout) = hist[k].nout + 1
           /\ stdout[Len(stdout)] = str(hist[k - 1].b)
           /\ DecValue(stdout[Len(stdout)]) = hist[k - 1].b

C5_Witness ==
    /\ Len(hist) >= 2
    /\ Done(hist[Len(hist) - 1], LDI)
    /\ hist[Len(hist) - 1].b = 255
    /\ Done(hist[Len(hist)], PRN)
    /\ hist[Len(hist)].a = hist[Len(hist) - 1].a
    /\ stdout = <<<<"2", "5", "5">>>>


\* C6: an iteration that fetches, at a PC inside memory, a byte that is no
\* key of branchtable ends the run through sys.exit(1), prints the
\* diagnostic naming the byte exactly when the byte is non-zero, and leaves
\* registers, memory, FL and PC as they were.
C6_UnknownFault ==
    [][(status = "running" /\ running /\ pc \in 0..(MemSize - 1)
          /\ ram[pc] \notin branchtable)
       => /\ status' = "exit1"
          /\ UNCHANGED <<ram, reg, pc, fl>>
          /\ stdout' = IF ram[pc] # 0
                       THEN Append(stdout, <<"Unknown instruction ">> \o str(ram[pc]))
                       ELSE stdout]_vars

\* C7: the image whose only non-zero byte is HLT at address 0 halts after
\* exactly one instruction, with success and no output.
HltImage == [i \in 0..(MemSize - 1) |-> IF i = 0 THEN HLT ELSE 0]

C7_HaltTermination ==
    (status # "constructed" /\ ram = HltImage)
    => \/ hist = <<>> /\ status = "running" /\ ENABLED step_hlt
       \/ /\ Len(hist) = 1
          /\ Done(hist[1], HLT)
          /\ status = "halted"
          /\ ~running
          /\ stdout = <<>>

C7_Witness == ram = HltImage /\ status = "halted" /\ Len(hist) = 1

\* C8: a completed instruction whose opcode has bit 4 clear leaves
\* PC = PC + 1 + operand count (HLT +1; PRN, PUSH, POP +2; LDI, ADD, MUL,
\* CMP +3); one whose opcode has bit 4 set (CALL, RET, JMP, JEQ, JNE) leaves
\* PC exactly as its handler assigned it.
Bit4(ir) == (ir \div 16) % 2

OperandCount(ir) ==
    CASE ir = HLT -> 0
      [] ir \in {PRN, PUSH, POP} -> 1
      [] ir \in {LDI, ADD, MUL, CMP} -> 2

Assigned(e) ==
    CASE e.ir = JMP -> e.reg[Norm(e.a, NumRegs)]
      [] e.ir = CALL -> e.nreg[Norm(e.a, NumRegs)]
      [] e.ir = RET -> e.top
      [] e.ir = JEQ -> IF e.fl % 2 = 1 THEN e.reg[Norm(e.a, NumRegs)] ELSE e.pc + 2
      [] e.ir = JNE -> IF e.fl % 2 = 0 THEN e.reg[Norm(e.a, NumRegs)] ELSE e.pc + 2

C8_PcAdvance ==
    \A k \in Steps :
        LET e == hist[k] IN
        (e.ir \in branchtable /\ Done(e, e.ir))
        => IF Bit4(e.ir) = 0
           THEN /\ e.ir \in {HLT, PRN, PUSH, POP, LDI, ADD, MUL, CMP}
                /\ e.npc = e.pc + 1 + OperandCount(e.ir)
           ELSE /\ e.ir \in {CALL, RET, JMP, JEQ, JNE}
                /\ e.npc = Assigned(e)

C8_Witness ==
    /\ Len(hist) >= 2
    /\ Done(hist[1], LDI)
    /\ hist[1].npc = 3
    /\ Done(hist[Len(hist)], JMP)
    /\ pc = hist[Len(hist)].reg[hist[Len(hist)].a]
    /\ pc # hist[Len(hist)].pc + 2

\* C9: every register and every memory cell holds a value in 0..255 in
\* every reachable state.
C9_EightBit ==
    /\ \A i \in 0..(NumRegs - 1) : IsByte(reg[i])
    /\ \A j \in 0..(MemSize - 1) : IsByte(ram[j])

\* C10: FL is one of 0b000, 0b001, 0b010, 0b100; it is 0b000 only while no
\* CMP has executed; after a CMP it is 0b100, 0b010 or 0b001 according to
\* reg[a] < reg[b], reg[a] > reg[b] or reg[a] = reg[b] at the latest CMP.
C10_Flags ==
    LET j == LastCmp(Len(hist) + 1) IN
    /\ fl \in {0, 1, 2, 4}
    /\ fl = 0 => j = 0
    /\ j # 0 => /\ fl = 4 <=> CmpX(j) < CmpY(j)
                /\ fl = 2 <=> CmpX(j) > CmpY(j)
                /\ fl = 1 <=> CmpX(j) = CmpY(j)

C10_Witness ==
    LET j == LastCmp(Len(hist) + 1) IN
    /\ j # 0
    /\ j < Len(hist)
    /\ CmpX(j) = CmpY(j)
    /\ fl = 1

\* C11: FL is written only by CMP.  Every step that is not a completed CMP
\* (any other instruction, a faulting step, the load) leaves FL unchanged,
\* and a completed CMP leaves registers, memory, the running indicator and
\* the output unchanged.
C11_FlagFrame ==
    [][IF hist' = hist THEN fl' = fl
       ELSE IF Done(hist'[Len(hist')], CMP)
            THEN UNCHANGED <<ram, reg, running, stdout>>
            ELSE fl' = fl]_vars

C11_Witness ==
    \E k \in Steps :
        /\ Done(hist[k], CMP)
        /\ hist[k].nfl = 4
        /\ hist[k].fl # 4
        /\ hist[k].nreg = hist[k].reg
        /\ k < Len(hist)
        /\ hist[Len(hist)].exc = "none"
        /\ fl = 4

\* C12: the running indicator is true initially and becomes false only in
\* a step that executes HLT; once it is false no step changes anything.
C12_RunningHalt ==
    /\ running = TRUE
    /\ [][/\ ~running => UNCHANGED vars
          /\ (running /\ ~running')
             => /\ hist' # hist
                /\ Done(hist'[Len(hist')], HLT)
                /\ status' = "halted"]_vars

C12_Witness ==
    /\ ~running
    /\ status = "halted"
    /\ Len(hist) >= 2
    /\ Done(hist[Len(hist)], HLT)
    /\ \A k \in 1..(Len(hist) - 1) : hist[k].ir # HLT

\* C13: a HLT fetched at any address 0..255 halts the run, and the fetch of
\* the two cells after PC never makes a step fail when the instruction and
\* its operands lie inside memory.
C13_HaltAnywhere ==
    Len(hist) > 0 =>
        LET e == hist[Len(hist)] IN
        /\ (e.pc \in 0..(MemSize - 1) /\ e.ir = HLT) => status = "halted"
        /\ (e.pc \in 0..(MemSize - 1) /\ e.ir \in branchtable
              /\ e.pc + num_operands(e.ir) <= MemSize - 1) => e.fetched

\* C14: JMP a sets PC = reg[a]; JEQ a sets PC = reg[a] when the equal bit of
\* FL is set and PC + 2 otherwise; JNE a sets PC = reg[a] when the equal bit
\* is clear (FL = 0 included) and PC + 2 otherwise; none of them changes a
\* register, a memory cell, FL or the running indicator.
EqualBit(f) == f % 2

C14_JumpSteps ==
    [][hist' # hist =>
        LET e == hist'[Len(hist')]
            taken == \/ e.ir = JMP
                     \/ e.ir = JEQ /\ EqualBit(fl) = 1
                     \/ e.ir = JNE /\ EqualBit(fl) = 0
        IN  (e.ir \in {JMP, JEQ, JNE} /\ Done(e, e.ir))
            => /\ IF taken THEN IsReg(e.a) => pc' = reg[e.a] ELSE pc' = pc + 2
               /\ UNCHANGED <<reg, ram, fl, running>>]_vars

C14_Witness ==
    \E k \in Steps :
        /\ Done(hist[k], JNE)
        /\ hist[k].fl = 0
        /\ IsReg(hist[k].a)
        /\ hist[k].npc = hist[k].reg[hist[k].a]
        /\ hist[k].npc # hist[k].pc + 2

\* C15: PUSH a decrements reg[7] and then stores the then current reg[a] at
\* memory[reg[7]], changing nothing else but PC (+2); POP a loads reg[a]
\* from memory[reg[7]] and then increments reg[7], changing no memory cell
\* and no other register; neither changes FL.  A POP with no matching PUSH
\* is no error.  (memory[i] is the cell Python's ram[i] denotes.)
C15_PushPopSteps ==
    [][hist' # hist =>
        LET e == hist'[Len(hist')] IN
        /\ (Done(e, PUSH) /\ IsReg(e.a))
           => /\ reg' = [reg EXCEPT ![SP] = @ - 1]
              /\ ram' = [ram EXCEPT ![Norm(reg'[SP], MemSize)] = reg'[e.a]]
              /\ pc' = pc + 2
              /\ UNCHANGED <<fl, running, stdout>>
        /\ (Done(e, POP) /\ IsReg(e.a))
           => /\ reg' = [[reg EXCEPT ![e.a] = ram[Norm(reg[SP], MemSize)]]
                            EXCEPT ![SP] = @ + 1]
              /\ pc' = pc + 2
              /\ UNCHANGED <<ram, fl, running, stdout>>
        /\ (e.fetched /\ e.ir = POP /\ IsReg(e.a) /\ reg[SP] \in 0..(MemSize - 1))
           => e.exc = "none"]_vars

C15_Witness ==
    \E k \in Steps :
        /\ Done(hist[k], POP)
        /\ \A j \in 1..(k - 1) : hist[j].ir # PUSH
        /\ IsReg(hist[k].a)
        /\ hist[k].a # SP
        /\ hist[k].top # 0
        /\ hist[k].nreg[hist[k].a] = hist[k].top
        /\ hist[k].nreg[SP] = hist[k].reg[SP] + 1

\* C16: PRN a appends the value of reg[a] to the output and advances PC by
\* 2; registers, memory, FL and the running indicator are unchanged.
C16_PrnFrame ==
    [][hist' # hist =>
        LET e == hist'[Len(hist')] IN
        (Done(e, PRN) /\ IsReg(e.a))
        => /\ stdout' = Append(stdout, str(reg[e.a]))
           /\ pc' = pc + 2
           /\ UNCHANGED <<reg, ram, fl, running>>]_vars

C16_Witness ==
    /\ Len(hist) >= 1
    /\ Done(hist[Len(hist)], PRN)
    /\ hist[Len(hist)].a = SP
    /\ stdout = <<str(StackInit)>>
    /\ pc = hist[Len(hist)].pc + 2
    /\ reg = hist[Len(hist)].reg

\* C17: the output is exactly the values read by the executed PRNs, one line
\* each, in execution order; nothing else is written but the one diagnostic
\* of an unknown non-zero opcode, which ends the run; lines already written
\* stay where they are.
RECURSIVE Emitted(_)
Emitted(k) ==
    IF k = 0 THEN <<>>
    ELSE LET e == hist[k] IN
         IF Done(e, PRN)
         THEN Append(Emitted(k - 1), str(e.reg[Norm(e.a, NumRegs)]))
         ELSE IF e.fetched /\ e.ir \notin branchtable /\ e.ir # 0
         THEN Append(Emitted(k - 1), <<"Unknown instruction ">> \o str(e.ir))
         ELSE Emitted(k - 1)

C17_OutputOrder ==
    /\ stdout = Emitted(Len(hist))
    /\ \A k \in Steps :
          /\ hist[k].nout = Len(Emitted(k - 1))
          /\ (hist[k].fetched /\ hist[k].ir \notin branchtable)
             => (k = Len(hist) /\ status = "exit1")

C17_Witness ==
    /\ Len(hist) >= 3
    /\ Done(hist[1], PRN)
    /\ Done(hist[3], PRN)
    /\ Len(stdout) = 2
    /\ stdout[1] # stdout[2]
    /\ stdout[1] = str(hist[1].reg[hist[1].a])

\* C18: in every reachable state the program counter is a memory address,
\* 0 <= PC <= 255.
C18_PcRange == pc \in 0..(MemSize - 1)

\* C19: alu(op, reg_a, reg_b) with an op that has no handler fails with an
\* exception that names op and leaves registers, memory, FL and PC
\* unchanged; with ADD, MUL or CMP it has exactly the effect of that op's
\* handler; and it never calls a handler with a number of operands other
\* than the one its opcode declares.
Names(text, op) ==
    \E i \in 1..Len(text) :
        /\ i + Len(str(op)) - 1 <= Len(text)
        /\ SubSeq(text, i, i + Len(str(op)) - 1) = str(op)

C19_AluEntryPoint ==
    \A k \in Steps :
        LET e == hist[k] IN
        /\ e.op \notin branchtable
           => /\ e.after.exc # "none"
              /\ Names(e.msg, e.op)
              /\ e.after = Raise(e.before, e.after.exc)
        /\ e.op = ADD => e.after = handle_add(e.before, e.a, e.b)
        /\ e.op = MUL => e.after = handle_mul(e.before, e.a, e.b)
        /\ e.op = CMP => e.after = handle_cmp(e.before, e.a, e.b)
        /\ e.op \in branchtable => e.nargs = num_operands(e.op)

====
